---- MODULE Spec2Model ----
(***************************************************************************)
(* The mini UART driver of pi/src/uart.rs as a state machine.              *)
(*                                                                         *)
(* The driver is one sequential process; `pc` is its position.  Every      *)
(* volatile register access and every clock read is one step, so that the  *)
(* hardware (received bytes, the transmit FIFO draining) and the clock can *)
(* move between two accesses, as they do on the device.                    *)
(***************************************************************************)
EXTENDS Integers, Sequences, FiniteSets, TLC

VARIABLES
    pins,          \* GPIO function of pins 14 and 15
    AUX_ENABLES,   \* the AUXENB register
    LCR, BAUD, CNTL, \* configuration registers of the register block
    rxFifo,        \* hardware receive FIFO, head is what IO.read() pops
    txAvail,       \* hardware: the transmit FIFO can accept a byte
    clock,         \* timer::current_time(), microseconds
    delivered,     \* every byte the hardware has made available so far
    timeout,       \* MiniUart.timeout: <<>> is None, <<ms>> is Some(ms)
    pc,            \* position of the driver
    op,            \* the public operation in progress (or last called)
    cont,          \* where the function in progress returns to
    byte,          \* write_byte's argument
    arg,           \* the argument of write_str / io::Write::write
    todo,          \* the part of arg the for loop has not visited yet
    start,         \* wait_for_byte's local `start`
    polls,         \* has_byte polls of the wait_for_byte/read_byte in progress
    buf,           \* io::Read::read's buffer
    read,          \* io::Read::read's local `read`
    ret,           \* value returned by the last function that returned, if any
    last,          \* the public operation that returned, "none" while one runs
    sent,          \* bytes written to IO by the operation in progress
    returned,      \* every byte handed to a caller so far
    reported,      \* byte announced by has_byte/wait_for_byte just before
    writes,        \* configuration-register writes, in program order
    access,        \* <<what, value>>: the last access of the driver
    readyInTime    \* the data-ready bit was set at or before the deadline

vars == <<pins, AUX_ENABLES, LCR, BAUD, CNTL, rxFifo, txAvail, clock, delivered,
          timeout, pc, op, cont, byte, arg, todo, start, polls, buf, read, ret,
          last, sent, returned, reported, writes, access, readyInTime>>

hw     == <<rxFifo, txAvail, clock, delivered>>
regs   == <<pins, AUX_ENABLES, LCR, BAUD, CNTL, writes>>
locals == <<byte, arg, todo, start, polls, buf, read>>

----------------------------------------------------------------------------
(* Bounds of the model. *)
MaxTime      == 1001   \* the clock stops advancing here
MaxTimeoutMs == 1      \* set_read_timeout arguments are 0..MaxTimeoutMs
MaxRecv      == 2      \* bytes the hardware delivers in one behaviour
MaxStrLen    == 2      \* length of the texts and buffers written
MaxCap       == 2      \* capacity of the buffers read into
MaxPolls     == 2      \* the poll counter saturates here

(* Program constants. *)
DataReady    == 1
TxAvailable  == 32
AuxMiniUart  == 1
Lcr8Bit      == 3
BaudDivisor  == 270
CntlTxRx     == 3
UsPerMs      == 1000
LF           == 10
CR           == 13
Alt5         == 5

(* Inputs. *)
TickSteps == {1000, 1001}          \* microseconds the clock advances by
RxBytes   == {97, 98}              \* bytes the hardware may receive
TxBytes   == {LF, 97}              \* bytes callers write
AuxInit   == 0..3                  \* AUXENB before initialization
LcrInit   == {0, 2}
BaudInit  == {0, 271}
CntlInit  == {0, 1}

SeqsUpTo(S, n) == UNION {[1..k -> S] : k \in 0..n}

\* A caller's buffer of capacity cap, before the read.
FreshBuf(cap) == [i \in 1..cap |-> 0]

----------------------------------------------------------------------------
(* Bit operations for a single-bit mask. *)
BitAnd(x, mask) == ((x \div mask) % 2) * mask
OrMaskOverwrite(x, mask) == mask     \* a plain write instead of or_mask
OrMask(x, mask) == x + mask - BitAnd(x, mask)

(* The read-only line status register as the hardware presents it. *)
LSR == (IF rxFifo # <<>> THEN DataReady ELSE 0)
       + (IF txAvail THEN TxAvailable ELSE 0)

(* Return values. *)
Unit      == <<"unit", 0>>
Ok        == <<"Ok", 0>>
Err       == <<"Err", 0>>
TimedOut  == <<"TimedOut", 0>>
Bool(b)   == <<"bool", IF b THEN 1 ELSE 0>>
U8(b)     == <<"u8", b>>
OkLen(n)  == <<"OkLen", n>>

\* One more has_byte poll; the counter saturates at MaxPolls.
Polled(n) == IF n < MaxPolls THEN n + 1 ELSE n

NoAccess  == <<"none", 0>>

\* Locals of a function that has not run yet.
L0 == [byte |-> 0, arg |-> <<>>, todo |-> <<>>, start |-> 0, polls |-> 0,
       buf |-> <<>>, read |-> 0]

----------------------------------------------------------------------------
\* The statements of MiniUart::new, CNTL enabled before the baud rate is set.
NewOrderCntlEarly == <<"new_gpio14", "new_gpio15", "new_aux", "new_lcr", "new_cntl",
                       "new_baud", "new_ret">>

\* The statements of MiniUart::new in program order.
NewOrder == <<"new_gpio14", "new_gpio15", "new_aux", "new_lcr", "new_baud",
              "new_cntl", "new_ret">>

Init ==
    /\ pins = [p \in {14, 15} |-> 0]
    /\ AUX_ENABLES \in AuxInit
    /\ LCR \in LcrInit
    /\ BAUD \in BaudInit
    /\ CNTL \in CntlInit
    /\ rxFifo = <<>>
    /\ txAvail \in BOOLEAN
    /\ clock = 0
    /\ delivered = <<>>
    /\ timeout = <<>>
    /\ pc = NewOrder[1]
    /\ op = "new"
    /\ cont = "idle"
    /\ byte = 0
    /\ arg = <<>>
    /\ todo = <<>>
    /\ start = 0
    /\ polls = 0
    /\ buf = <<>>
    /\ read = 0
    /\ ret = Unit
    /\ last = "none"
    /\ sent = <<>>
    /\ returned = <<>>
    /\ reported = <<>>
    /\ writes = <<>>
    /\ access = NoAccess
    /\ readyInTime = FALSE

----------------------------------------------------------------------------
(* Hardware and clock. *)

\* wait_for_byte has captured `start` and has not returned yet.
InWait == pc \in {"wfb_poll", "wfb_time"}

Deadline == start + timeout[1] * UsPerMs

Tick ==
    /\ \E d \in TickSteps :
         /\ clock + d <= MaxTime
         /\ clock' = clock + d
    /\ UNCHANGED <<pins, AUX_ENABLES, LCR, BAUD, CNTL, rxFifo, txAvail, delivered,
                   timeout, pc, op, cont, byte, arg, todo, start, polls, buf, read,
                   ret, last, sent, returned, reported, writes, access, readyInTime>>

HwReceive ==
    /\ Len(delivered) < MaxRecv
    /\ \E b \in RxBytes :
         /\ rxFifo' = Append(rxFifo, b)
         /\ delivered' = Append(delivered, b)
    /\ readyInTime' = (readyInTime
                       \/ (InWait /\ timeout # <<>> /\ clock <= Deadline))
    /\ UNCHANGED <<pins, AUX_ENABLES, LCR, BAUD, CNTL, txAvail, clock,
                   timeout, pc, op, cont, byte, arg, todo, start, polls, buf, read,
                   ret, last, sent, returned, reported, writes, access>>

HwTxDrain ==
    /\ ~txAvail
    /\ txAvail' = TRUE
    /\ UNCHANGED <<pins, AUX_ENABLES, LCR, BAUD, CNTL, rxFifo, clock, delivered,
                   timeout, pc, op, cont, byte, arg, todo, start, polls, buf, read,
                   ret, last, sent, returned, reported, writes, access, readyInTime>>

----------------------------------------------------------------------------
(* MiniUart::new, one step per register access, in program order. *)

\* The statement that follows statement p of new().
NewNext(p) == LET i == CHOOSE k \in 1..Len(NewOrder) : NewOrder[k] = p
              IN  NewOrder[i + 1]

NewStep(p) ==
    /\ pc = p
    /\ pc' = NewNext(p)
    /\ UNCHANGED <<hw, timeout, op, cont, locals, ret, last, sent, returned,
                   reported, readyInTime>>

New_Gpio14 ==
    /\ NewStep("new_gpio14")
    /\ pins' = [pins EXCEPT ![14] = Alt5]
    /\ writes' = Append(writes, <<"GPIO14", Alt5>>)
    /\ access' = <<"GPIO14", Alt5>>
    /\ UNCHANGED <<AUX_ENABLES, LCR, BAUD, CNTL>>

New_Gpio15 ==
    /\ NewStep("new_gpio15")
    /\ pins' = [pins EXCEPT ![15] = Alt5]
    /\ writes' = Append(writes, <<"GPIO15", Alt5>>)
    /\ access' = <<"GPIO15", Alt5>>
    /\ UNCHANGED <<AUX_ENABLES, LCR, BAUD, CNTL>>

New_AuxEnable ==
    /\ NewStep("new_aux")
    /\ AUX_ENABLES' = OrMask(AUX_ENABLES, AuxMiniUart)
    /\ writes' = Append(writes, <<"AUX_ENABLES", AUX_ENABLES'>>)
    /\ access' = <<"AUX_ENABLES", AUX_ENABLES'>>
    /\ UNCHANGED <<pins, LCR, BAUD, CNTL>>

New_LCR ==
    /\ NewStep("new_lcr")
    /\ LCR' = Lcr8Bit
    /\ writes' = Append(writes, <<"LCR", LCR'>>)
    /\ access' = <<"LCR", LCR'>>
    /\ UNCHANGED <<pins, AUX_ENABLES, BAUD, CNTL>>

New_BAUD ==
    /\ NewStep("new_baud")
    /\ BAUD' = BaudDivisor
    /\ writes' = Append(writes, <<"BAUD", BAUD'>>)
    /\ access' = <<"BAUD", BAUD'>>
    /\ UNCHANGED <<pins, AUX_ENABLES, LCR, CNTL>>

New_CNTL ==
    /\ NewStep("new_cntl")
    /\ CNTL' = CntlTxRx
    /\ writes' = Append(writes, <<"CNTL", CNTL'>>)
    /\ access' = <<"CNTL", CNTL'>>
    /\ UNCHANGED <<pins, AUX_ENABLES, LCR, BAUD>>

New_Return ==
    /\ pc = "new_ret"
    /\ pc' = "idle"
    /\ timeout' = <<>>
    /\ last' = "new"
    /\ ret' = Unit
    /\ access' = NoAccess
    /\ UNCHANGED <<hw, regs, op, cont, locals, sent, returned, reported,
                   readyInTime>>

----------------------------------------------------------------------------
(* Calls and returns. *)

\* A caller invokes public operation o: control goes to p, the function
\* entered returns to k, and its locals are l.
Enter(o, p, k, l) ==
    /\ pc = "idle"
    /\ op' = o
    /\ pc' = p
    /\ cont' = k
    /\ byte' = l.byte
    /\ arg' = l.arg
    /\ todo' = l.todo
    /\ start' = l.start
    /\ polls' = l.polls
    /\ buf' = l.buf
    /\ read' = l.read
    /\ sent' = <<>>

\* The operation entered has not returned yet.
InProgress ==
    /\ ret' = Unit
    /\ last' = "none"

\* The function in progress returns v to cont; a return to "idle" is the
\* return of the public operation.
Return(v) ==
    /\ pc' = cont
    /\ ret' = v
    /\ last' = IF cont = "idle" THEN op ELSE last

----------------------------------------------------------------------------
(* Driver core. *)


\* A set_read_timeout that keeps the shorter of the old and the new timeout.
set_read_timeout_keeps_shorter ==
    \E milliseconds \in 0..MaxTimeoutMs :
        /\ Enter("set_read_timeout", "idle", "idle", L0)
        /\ timeout' = IF timeout # <<>> /\ timeout[1] < milliseconds
                        THEN timeout ELSE <<milliseconds>>
        /\ last' = "set_read_timeout"
        /\ ret' = Unit
        /\ reported' = <<>>
        /\ access' = NoAccess
        /\ readyInTime' = FALSE
        /\ UNCHANGED <<hw, regs, returned>>

set_read_timeout ==
    \E milliseconds \in 0..MaxTimeoutMs :
        /\ Enter("set_read_timeout", "idle", "idle", L0)
        /\ timeout' = <<milliseconds>>
        /\ last' = "set_read_timeout"
        /\ ret' = Unit
        /\ reported' = <<>>
        /\ access' = NoAccess
        /\ readyInTime' = FALSE
        /\ UNCHANGED <<hw, regs, returned>>

HasByteAnyBit(lsr) == lsr # 0        \* the mask forgotten
TxFullDataReady(lsr) == BitAnd(lsr, DataReady) = 0   \* the wrong status bit

\* LSR.read() & LsrStatus::DataReady != 0, on the value lsr read from LSR.
HasByte(lsr) == BitAnd(lsr, DataReady) # 0

\* LSR.read() & LsrStatus::TxAvailable == 0: the condition write_byte spins on.
TxFull(lsr) == BitAnd(lsr, TxAvailable) = 0

\* A has_byte that takes the byte out of the FIFO.
has_byte_consuming ==
    /\ Enter("has_byte", "idle", "idle", L0)
    /\ access' = <<"LSR", LSR>>
    /\ ret' = Bool(HasByte(LSR))
    /\ last' = "has_byte"
    /\ reported' = IF HasByte(LSR) /\ rxFifo # <<>> THEN <<Head(rxFifo)>> ELSE <<>>
    /\ rxFifo' = IF rxFifo # <<>> THEN Tail(rxFifo) ELSE rxFifo
    /\ readyInTime' = FALSE
    /\ UNCHANGED <<txAvail, clock, delivered, regs, timeout, returned>>

has_byte ==
    /\ Enter("has_byte", "idle", "idle", L0)
    /\ access' = <<"LSR", LSR>>
    /\ ret' = Bool(HasByte(LSR))
    /\ last' = "has_byte"
    /\ reported' = IF HasByte(LSR) /\ rxFifo # <<>> THEN <<Head(rxFifo)>> ELSE <<>>
    /\ readyInTime' = FALSE
    /\ UNCHANGED <<hw, regs, timeout, returned>>

write_byte ==
    \E b \in TxBytes :
        /\ Enter("write_byte", "wb_poll", "idle", [L0 EXCEPT !.byte = b])
        /\ reported' = <<>>
        /\ access' = NoAccess
        /\ readyInTime' = FALSE
        /\ InProgress
        /\ UNCHANGED <<hw, regs, timeout, returned>>

write_byte_poll ==
    /\ pc = "wb_poll"
    /\ access' = <<"LSR", LSR>>
    /\ pc' = IF TxFull(LSR) THEN "wb_poll" ELSE "wb_io"
    /\ UNCHANGED <<hw, regs, timeout, op, cont, locals, ret, last, sent,
                   returned, reported, readyInTime>>


\* A write_byte that stores the byte in LCR, the wrong field of the block.
write_byte_io_wrong_field ==
    /\ pc = "wb_io"
    /\ LCR' = byte
    /\ access' = <<"LCR", byte>>
    /\ Return(Unit)
    /\ UNCHANGED <<hw, pins, AUX_ENABLES, BAUD, CNTL, writes, timeout, op, cont,
                   locals, sent, returned, reported, readyInTime>>

write_byte_io ==
    /\ pc = "wb_io"
    /\ sent' = Append(sent, byte)
    /\ access' = <<"IO_W", byte>>
    /\ txAvail' \in BOOLEAN
    /\ Return(Unit)
    /\ UNCHANGED <<rxFifo, clock, delivered, regs, timeout, op, cont, locals,
                   returned, reported, readyInTime>>

\* `let start = timer::current_time();` on entry to wait_for_byte.
WfbStart ==
    /\ access' = <<"CLOCK", clock>>
    /\ readyInTime' = (rxFifo # <<>>)

wait_for_byte ==
    /\ Enter("wait_for_byte", "wfb_poll", "idle", [L0 EXCEPT !.start = clock])
    /\ WfbStart
    /\ reported' = <<>>
    /\ InProgress
    /\ UNCHANGED <<hw, regs, timeout, returned>>



\* The deadline test with one millisecond of slack.
ExpiredWithSlack(now, ms) == now > start + (ms + 1) * UsPerMs

\* The deadline test with >= in place of >.
ExpiredAtDeadline(now, ms) == now >= start + ms * UsPerMs

\* The deadline with the milliseconds not converted to microseconds.
ExpiredNoScale(now, ms) == now > start + ms

\* The deadline test of wait_for_byte on the clock value now.  The sum is u64
\* arithmetic on a microsecond counter and ms < 2^32, so it does not wrap for
\* any clock value below 2^64 - 2^42; the clock is an unbounded natural here.
Expired(now, ms) == now > start + ms * UsPerMs

\* A wait_for_byte that treats "no timeout" as an expired one.
wait_for_byte_poll_none_expires ==
    /\ pc = "wfb_poll"
    /\ access' = <<"LSR", LSR>>
    /\ polls' = Polled(polls)
    /\ IF HasByte(LSR)
         THEN /\ Return(Ok)
              /\ reported' = IF cont = "idle" /\ rxFifo # <<>>
                               THEN <<Head(rxFifo)>> ELSE reported
         ELSE /\ IF timeout = <<>> THEN Return(Err)
                                   ELSE pc' = "wfb_time" /\ UNCHANGED <<ret, last>>
              /\ UNCHANGED reported
    /\ UNCHANGED <<hw, regs, timeout, op, cont, byte, arg, todo, start, buf,
                   read, sent, returned, readyInTime>>

wait_for_byte_poll ==
    /\ pc = "wfb_poll"
    /\ access' = <<"LSR", LSR>>
    /\ polls' = Polled(polls)
    /\ IF HasByte(LSR)
         THEN /\ Return(Ok)
              /\ reported' = IF cont = "idle" /\ rxFifo # <<>>
                               THEN <<Head(rxFifo)>> ELSE reported
         ELSE /\ pc' = IF timeout = <<>> THEN "wfb_poll" ELSE "wfb_time"
              /\ UNCHANGED <<ret, last, reported>>
    /\ UNCHANGED <<hw, regs, timeout, op, cont, byte, arg, todo, start, buf,
                   read, sent, returned, readyInTime>>

wait_for_byte_time ==
    /\ pc = "wfb_time"
    /\ access' = <<"CLOCK", clock>>
    /\ IF Expired(clock, timeout[1])
         THEN Return(Err)
         ELSE /\ pc' = "wfb_poll"
              /\ UNCHANGED <<ret, last>>
    /\ UNCHANGED <<hw, regs, timeout, op, cont, locals, sent, returned,
                   reported, readyInTime>>

read_byte ==
    /\ Enter("read_byte", "rb_poll", "idle", L0)
    /\ reported' = IF last = "read_byte" THEN <<>> ELSE reported
    /\ access' = NoAccess
    /\ readyInTime' = FALSE
    /\ InProgress
    /\ UNCHANGED <<hw, regs, timeout, returned>>

\* A read_byte that gives up when a timeout is configured.
read_byte_poll_timed ==
    /\ pc = "rb_poll"
    /\ access' = <<"LSR", LSR>>
    /\ polls' = Polled(polls)
    /\ IF HasByte(LSR) THEN pc' = "rb_io" /\ UNCHANGED <<ret, last>>
       ELSE IF timeout = <<>> THEN pc' = "rb_poll" /\ UNCHANGED <<ret, last>>
       ELSE Return(U8(0))
    /\ UNCHANGED <<hw, regs, timeout, op, cont, byte, arg, todo, start, buf,
                   read, sent, returned, reported, readyInTime>>

read_byte_poll ==
    /\ pc = "rb_poll"
    /\ access' = <<"LSR", LSR>>
    /\ polls' = Polled(polls)
    /\ pc' = IF HasByte(LSR) THEN "rb_io" ELSE "rb_poll"
    /\ UNCHANGED <<hw, regs, timeout, op, cont, byte, arg, todo, start, buf,
                   read, ret, last, sent, returned, reported, readyInTime>>

\* IO.read(): the hardware pops the head of the receive FIFO (0 when empty).
IoRead == IF rxFifo # <<>> THEN Head(rxFifo) ELSE 0

read_byte_io ==
    /\ pc = "rb_io"
    /\ access' = <<"IO_R", IoRead>>
    /\ rxFifo' = IF rxFifo # <<>> THEN Tail(rxFifo) ELSE rxFifo
    /\ returned' = Append(returned, IoRead)
    /\ Return(U8(IoRead))
    /\ UNCHANGED <<txAvail, clock, delivered, regs, timeout, op, cont, locals,
                   sent, reported, readyInTime>>

----------------------------------------------------------------------------
(* Stream adapter: fmt::Write. *)

write_str ==
    \E s \in SeqsUpTo(TxBytes, MaxStrLen) :
        /\ Enter("write_str", "ws_iter", "idle", [L0 EXCEPT !.arg = s, !.todo = s])
        /\ reported' = <<>>
        /\ access' = NoAccess
        /\ readyInTime' = FALSE
        /\ InProgress
        /\ UNCHANGED <<hw, regs, timeout, returned>>

\* "Must write a CR before a NL": `*b == b'\n'`.
NeedsCRNever(b) == FALSE

NeedsCR(b) == b = LF

\* Head of `for b in s.as_bytes()`: a line feed is preceded by write_byte(b'\r').
write_str_iter ==
    /\ pc = "ws_iter"
    /\ IF todo = <<>>
         THEN /\ pc' = "idle"
              /\ ret' = Ok
              /\ last' = "write_str"
              /\ UNCHANGED <<byte, todo, cont>>
         ELSE /\ IF NeedsCR(Head(todo))
                   THEN /\ byte' = CR
                        /\ cont' = "ws_byte"
                        /\ todo' = todo
                   ELSE /\ byte' = Head(todo)
                        /\ cont' = "ws_iter"
                        /\ todo' = Tail(todo)
              /\ pc' = "wb_poll"
              /\ UNCHANGED <<ret, last>>
    /\ UNCHANGED <<hw, regs, timeout, op, arg, start, polls, buf, read, sent,
                   returned, reported, access, readyInTime>>

\* `self.write_byte(*b)` after the carriage return went out.
write_str_byte ==
    /\ pc = "ws_byte"
    /\ byte' = Head(todo)
    /\ todo' = Tail(todo)
    /\ cont' = "ws_iter"
    /\ pc' = "wb_poll"
    /\ UNCHANGED <<hw, regs, timeout, op, arg, start, polls, buf, read, ret, last,
                   sent, returned, reported, access, readyInTime>>

----------------------------------------------------------------------------
(* Stream adapter: io::Read and io::Write. *)

uart_io_read ==
    \E cap \in 0..MaxCap :
        /\ Enter("read", "wfb_poll", "read_match",
                 [L0 EXCEPT !.start = clock, !.buf = FreshBuf(cap)])
        /\ WfbStart
        /\ reported' = <<>>
        /\ InProgress
        /\ UNCHANGED <<hw, regs, timeout, returned>>


\* A match that drains the FIFO even when wait_for_byte timed out.
uart_io_read_match_drains ==
    /\ pc = "read_match"
    /\ pc' = "read_iter"
    /\ read' = 0
    /\ cont' = "idle"
    /\ UNCHANGED <<hw, regs, timeout, op, byte, arg, todo, start, polls, buf, sent,
                   ret, last, returned, reported, access, readyInTime>>

\* `match self.wait_for_byte()`.
uart_io_read_match ==
    /\ pc = "read_match"
    /\ IF ret = Err
         THEN /\ pc' = "idle"
              /\ ret' = TimedOut
              /\ last' = "read"
              /\ read' = read
         ELSE /\ pc' = "read_iter"
              /\ read' = 0
              /\ UNCHANGED <<ret, last>>
    /\ cont' = "idle"
    /\ UNCHANGED <<hw, regs, timeout, op, byte, arg, todo, start, polls, buf, sent,
                   returned, reported, access, readyInTime>>


\* A read loop that stops one slot short of the buffer's capacity.
uart_io_read_iter_short ==
    /\ pc = "read_iter"
    /\ access' = <<"LSR", LSR>>
    /\ IF read + 1 < Len(buf) /\ HasByte(LSR)
         THEN /\ pc' = "rb_poll"
              /\ cont' = "read_store"
              /\ polls' = 0
              /\ UNCHANGED <<ret, last>>
         ELSE /\ pc' = "idle"
              /\ ret' = OkLen(read)
              /\ last' = "read"
              /\ UNCHANGED <<cont, polls>>
    /\ UNCHANGED <<hw, regs, timeout, op, byte, arg, todo, start, buf, read, sent,
                   returned, reported, readyInTime>>

\* `while let (Some(b), true) = (iter.next(), self.has_byte())`: has_byte is
\* evaluated whether or not the iterator has a slot left.
uart_io_read_iter ==
    /\ pc = "read_iter"
    /\ access' = <<"LSR", LSR>>
    /\ IF read < Len(buf) /\ HasByte(LSR)
         THEN /\ pc' = "rb_poll"
              /\ cont' = "read_store"
              /\ polls' = 0
              /\ UNCHANGED <<ret, last>>
         ELSE /\ pc' = "idle"
              /\ ret' = OkLen(read)
              /\ last' = "read"
              /\ UNCHANGED <<cont, polls>>
    /\ UNCHANGED <<hw, regs, timeout, op, byte, arg, todo, start, buf, read, sent,
                   returned, reported, readyInTime>>


\* A loop body that forgets `read += 1`.
uart_io_read_store_no_count ==
    /\ pc = "read_store"
    /\ buf' = [buf EXCEPT ![read + 1] = ret[2]]
    /\ read' = read
    /\ pc' = "read_iter"
    /\ cont' = "idle"
    /\ UNCHANGED <<hw, regs, timeout, op, byte, arg, todo, start, polls, ret, last,
                   sent, returned, reported, access, readyInTime>>

\* `*b = self.read_byte(); read += 1;`
uart_io_read_store ==
    /\ pc = "read_store"
    /\ buf' = [buf EXCEPT ![read + 1] = ret[2]]
    /\ read' = read + 1
    /\ pc' = "read_iter"
    /\ cont' = "idle"
    /\ UNCHANGED <<hw, regs, timeout, op, byte, arg, todo, start, polls, ret, last,
                   sent, returned, reported, access, readyInTime>>

uart_io_write ==
    \E b \in SeqsUpTo(TxBytes, MaxStrLen) :
        /\ Enter("write", "w_iter", "idle", [L0 EXCEPT !.arg = b, !.todo = b])
        /\ reported' = <<>>
        /\ access' = NoAccess
        /\ readyInTime' = FALSE
        /\ InProgress
        /\ UNCHANGED <<hw, regs, timeout, returned>>


\* A buffered write that sends a carriage return in place of a line feed.
uart_io_write_iter_translating ==
    /\ pc = "w_iter"
    /\ IF todo = <<>>
         THEN /\ pc' = "idle"
              /\ ret' = OkLen(Len(arg))
              /\ last' = "write"
              /\ UNCHANGED <<byte, todo, cont>>
         ELSE /\ byte' = IF NeedsCR(Head(todo)) THEN CR ELSE Head(todo)
              /\ todo' = Tail(todo)
              /\ cont' = "w_iter"
              /\ pc' = "wb_poll"
              /\ UNCHANGED <<ret, last>>
    /\ UNCHANGED <<hw, regs, timeout, op, arg, start, polls, buf, read, sent,
                   returned, reported, access, readyInTime>>

\* Head of `for b in buf`, and `Ok(buf.len())` after the last byte.
uart_io_write_iter ==
    /\ pc = "w_iter"
    /\ IF todo = <<>>
         THEN /\ pc' = "idle"
              /\ ret' = OkLen(Len(arg))
              /\ last' = "write"
              /\ UNCHANGED <<byte, todo, cont>>
         ELSE /\ byte' = Head(todo)
              /\ todo' = Tail(todo)
              /\ cont' = "w_iter"
              /\ pc' = "wb_poll"
              /\ UNCHANGED <<ret, last>>
    /\ UNCHANGED <<hw, regs, timeout, op, arg, start, polls, buf, read, sent,
                   returned, reported, access, readyInTime>>

uart_io_flush ==
    /\ Enter("flush", "idle", "idle", L0)
    /\ ret' = Ok
    /\ last' = "flush"
    /\ reported' = <<>>
    /\ access' = NoAccess
    /\ readyInTime' = FALSE
    /\ UNCHANGED <<hw, regs, timeout, returned>>

----------------------------------------------------------------------------
Next ==
    \/ Tick
    \/ HwReceive
    \/ HwTxDrain
    \/ New_Gpio14
    \/ New_Gpio15
    \/ New_AuxEnable
    \/ New_LCR
    \/ New_BAUD
    \/ New_CNTL
    \/ New_Return
    \/ set_read_timeout
    \/ has_byte
    \/ write_byte
    \/ write_byte_poll
    \/ write_byte_io
    \/ wait_for_byte
    \/ wait_for_byte_poll
    \/ wait_for_byte_time
    \/ read_byte
    \/ read_byte_poll
    \/ read_byte_io
    \/ write_str
    \/ write_str_iter
    \/ write_str_byte
    \/ uart_io_read
    \/ uart_io_read_match
    \/ uart_io_read_iter
    \/ uart_io_read_store
    \/ uart_io_write
    \/ uart_io_write_iter
    \/ uart_io_flush

Spec == Init /\ [][Next]_vars

----------------------------------------------------------------------------
(* Vocabulary of the properties. *)

IsPrefix(s, t) == Len(s) <= Len(t) /\ \A i \in 1..Len(s) : s[i] = t[i]

\* new() has returned.
Initialized == ~(op = "new" /\ pc # "idle")

\* The public operation o has returned and nothing was called since.
Returned(o) == pc = "idle" /\ last = o

\* Bit k (of weight w = 2^k) of the value v.
BitSet(v, w) == (v \div w) % 2 = 1

\* The text s with a carriage return in front of every line feed.
RECURSIVE CrLf(_)
CrLf(s) == IF s = <<>> THEN <<>>
           ELSE (IF Head(s) = 10 THEN <<13, 10>> ELSE <<Head(s)>>) \o CrLf(Tail(s))

----------------------------------------------------------------------------
C2_AfterNew ==
    /\ [](Returned("new") =>
            LCR = 3 /\ BAUD = 270 /\ CNTL = 3 /\ BitSet(AUX_ENABLES, 1))
    /\ [][AUX_ENABLES' \div 2 = AUX_ENABLES \div 2]_vars

C2_Witness == Returned("new") /\ AUX_ENABLES = 3 /\ LCR = 3 /\ BAUD = 270 /\ CNTL = 3

\* C3: write_byte(b) writes IO only in the step after a poll that observed
\* line-status bit 5 set, it keeps polling only while every poll observed the
\* bit clear, and it writes exactly b, once, and returns.
C3_WriteByte ==
    /\ [](pc = "wb_poll" /\ access[1] = "LSR" => ~BitSet(access[2], 32))
    /\ [](pc = "wb_io" => access[1] = "LSR" /\ BitSet(access[2], 32))
    /\ [](op = "write_byte" =>
            sent = IF pc = "idle" THEN <<byte>> ELSE <<>>)
    /\ [][sent' # sent /\ sent' # <<>> =>
            /\ pc = "wb_io"
            /\ sent' = Append(sent, byte)
            /\ pc' = cont
            /\ ret' = <<"unit", 0>>]_vars

C3_Witness == Returned("write_byte") /\ byte = 10 /\ sent = <<10>>
              /\ access = <<"IO_W", 10>>

\* C4: has_byte returns true iff bit 0 of the line status it reads is set,
\* whatever the other bits are, and changes no register, neither FIFO, nor
\* the timeout.
C4_HasByte ==
    [][has_byte =>
         /\ ret' = <<"bool", LSR % 2>>
         /\ UNCHANGED <<pins, AUX_ENABLES, LCR, BAUD, CNTL, rxFifo, txAvail,
                        delivered, clock, timeout, returned>>]_vars

C4_Witness == Returned("has_byte") /\ ret = <<"bool", 0>> /\ access = <<"LSR", 32>>

\* C5: a read_byte called right after has_byte returned true or wait_for_byte
\* returned Ok returns after one poll and one IO read, with the byte that was
\* at the head of the receive FIFO when its presence was reported.
C5_ReadAfterReport ==
    (Returned("read_byte") /\ reported # <<>>) =>
        /\ polls = 1
        /\ ret = <<"u8", reported[1]>>
        /\ access = <<"IO_R", reported[1]>>

C5_Witness == Returned("read_byte") /\ reported = <<98>> /\ ret = <<"u8", 98>>

\* C6: with no timeout configured wait_for_byte never reports the timeout; it
\* returns Ok, and only from a poll that observed the data-ready bit set, and
\* while its polls observe the bit clear it stays in its loop.
C6_NoTimeout ==
    timeout = <<>> =>
        /\ Returned("wait_for_byte") =>
              ret = <<"Ok", 0>> /\ access[1] = "LSR" /\ BitSet(access[2], 1)
        /\ pc = "read_match" => ret = <<"Ok", 0>>
        /\ InWait =>
              /\ pc = "wfb_poll"
              /\ polls > 0 => (access[1] = "LSR" /\ ~BitSet(access[2], 1))

C6_Witness == Returned("wait_for_byte") /\ timeout = <<>> /\ ret = <<"Ok", 0>>
              /\ polls >= 2

\* C7 as stated: with a timeout configured, a wait_for_byte during which the
\* data-ready bit was not set at any clock value up to start + T*1000 returns
\* the timeout failure.
C7_Original ==
    (Returned("wait_for_byte") /\ timeout # <<>> /\ ~readyInTime) => ret = <<"Err", 0>>

\* C7 amended: start is the clock value at entry and is not captured again;
\* the clock is read only after a poll that observed the data-ready bit
\* clear, and that read returns the timeout failure iff its value is strictly
\* greater than start + T*1000, else the call polls again.
C7_Timeout ==
    /\ [][~InWait /\ InWait' => start' = clock /\ access' = <<"CLOCK", clock>>]_vars
    /\ [][InWait /\ InWait' => start' = start]_vars
    /\ [](pc = "wfb_time" =>
            timeout # <<>> /\ access[1] = "LSR" /\ ~BitSet(access[2], 1))
    /\ [][pc = "wfb_time" /\ pc' # "wfb_time" =>
            /\ access' = <<"CLOCK", clock>>
            /\ IF clock > start + timeout[1] * 1000
                 THEN pc' = cont /\ ret' = <<"Err", 0>>
                 ELSE pc' = "wfb_poll"]_vars

C7_Witness == Returned("wait_for_byte") /\ ret = <<"Err", 0>> /\ timeout = <<1>>
              /\ start = 0 /\ access = <<"CLOCK", 1001>> /\ ~readyInTime

\* C8: with a timeout configured, a wait_for_byte during which the data-ready
\* bit became set at a clock value at or before start + T*1000 returns Ok.
C8_Original ==
    (Returned("wait_for_byte") /\ timeout # <<>> /\ readyInTime) => ret = <<"Ok", 0>>

\* C9: write_byte and read_byte never read the clock and never report a
\* failure; they leave their poll loop only in a step where the awaited status
\* bit is set, and return only from the data-register access that follows,
\* whatever the timeout and the clock are.
C9_NoCancel ==
    /\ [](pc \in {"wb_poll", "wb_io", "rb_poll", "rb_io"} => access[1] # "CLOCK")
    /\ [](Returned("write_byte") => ret = <<"unit", 0>> /\ access[1] = "IO_W")
    /\ [](Returned("read_byte") => ret[1] = "u8" /\ access = <<"IO_R", ret[2]>>)
    /\ [][pc = "wb_poll" /\ pc' # "wb_poll" => txAvail /\ pc' = "wb_io"]_vars
    /\ [][pc = "rb_poll" /\ pc' # "rb_poll" => rxFifo # <<>> /\ pc' = "rb_io"]_vars

C9_Witness == op = "read_byte" /\ pc = "rb_poll" /\ timeout = <<0>> /\ clock > 0
              /\ polls >= 2 /\ rxFifo = <<>>

\* C10: write_str sends exactly the input bytes, in order, with a carriage
\* return in front of every line feed, and returns Ok.
C10_WriteStr ==
    /\ op = "write_str" =>
          /\ IsPrefix(sent, CrLf(arg))
          /\ ret \in {<<"unit", 0>>, <<"Ok", 0>>}
    /\ Returned("write_str") =>
          /\ sent = CrLf(arg)
          /\ ret = <<"Ok", 0>>
          /\ Len(sent) = Len(arg) + Cardinality({i \in 1..Len(arg) : arg[i] = 10})

C10_Witness == Returned("write_str") /\ arg = <<97, 10>> /\ sent = <<97, 13, 10>>


\* The buffered read has got past its initial wait_for_byte.
Draining == op = "read" /\ pc \in {"read_iter", "rb_poll", "rb_io", "read_store"}

\* C11: a buffered read that does not time out performs one IO read per count,
\* stores the bytes in slots 1..n in the order read, leaves the slots after n
\* as they were, returns n <= capacity from the loop-head poll that finds no
\* byte or no slot left, and does not read the clock after its initial wait.
C11_BufferedRead ==
    /\ [](Returned("read") /\ ret[1] = "OkLen" =>
            /\ ret[2] = read /\ read <= Len(buf) /\ read <= Len(returned)
            /\ \A i \in 1..read : buf[i] = returned[Len(returned) - read + i]
            /\ \A i \in (read + 1)..Len(buf) : buf[i] = 0
            /\ access[1] = "LSR")
    /\ [](Draining => access[1] # "CLOCK" /\ read <= Len(buf))
    /\ [][Draining /\ returned' # returned =>
            /\ pc = "rb_io" /\ pc' = "read_store"
            /\ returned' = Append(returned, Head(rxFifo))
            /\ rxFifo' = Tail(rxFifo)]_vars
    /\ [][pc = "read_store" /\ pc' # pc =>
            /\ returned # <<>> /\ read < Len(buf)
            /\ read' = read + 1
            /\ buf' = [buf EXCEPT ![read + 1] = returned[Len(returned)]]
            /\ pc' = "read_iter"]_vars
    /\ [][Draining /\ read' # read => pc = "read_store"]_vars
    /\ [][pc = "read_iter" /\ pc' # pc =>
            IF read < Len(buf) /\ rxFifo # <<>>
              THEN pc' = "rb_poll" /\ cont' = "read_store"
              ELSE pc' = "idle" /\ ret' = <<"OkLen", read>>]_vars

C11_Witness == Returned("read") /\ Len(buf) = 2 /\ ret = <<"OkLen", 1>>
               /\ buf = <<98, 0>> /\ rxFifo = <<>>


\* The buffered read is in, or is matching the result of, its wait_for_byte.
ReadWaiting == op = "read" /\ pc \in {"wfb_poll", "wfb_time", "read_match"}

\* C12: when its wait_for_byte returns Err, the buffered read returns the
\* timed-out failure; up to that return it has read nothing from IO, taken
\* nothing out of the receive FIFO and changed no slot of the buffer.
C12_ReadTimeout ==
    /\ [](Returned("read") /\ ret = <<"TimedOut", 0>> =>
            /\ \A i \in 1..Len(buf) : buf[i] = 0
            /\ read = 0
            /\ access[1] = "CLOCK")
    /\ [][ReadWaiting =>
            /\ returned' = returned
            /\ buf' = buf
            /\ IsPrefix(rxFifo, rxFifo')]_vars
    /\ [][pc = "read_match" /\ ret = <<"Err", 0>> /\ pc' # pc =>
            pc' = "idle" /\ ret' = <<"TimedOut", 0>> /\ last' = "read"]_vars

C12_Witness == Returned("read") /\ ret = <<"TimedOut", 0>> /\ buf = <<0, 0>>
               /\ rxFifo = <<97>> /\ delivered = <<97>>


\* C13: the buffered write sends the bytes of its buffer to IO unchanged and
\* in order, one IO write per byte, and returns the buffer length; flush
\* accesses no register, changes nothing of the device and returns Ok.
C13_BufferedWrite ==
    /\ [](op = "write" =>
            /\ IsPrefix(sent, arg)
            /\ Len(sent) + Len(todo) + (IF pc \in {"wb_poll", "wb_io"} THEN 1 ELSE 0)
                 = Len(arg)
            /\ ret \in {<<"unit", 0>>, <<"OkLen", Len(arg)>>})
    /\ [](Returned("write") => sent = arg /\ ret = <<"OkLen", Len(arg)>>)
    /\ [](Returned("flush") => ret = <<"Ok", 0>> /\ access = <<"none", 0>>)
    /\ [][uart_io_flush =>
            UNCHANGED <<pins, AUX_ENABLES, LCR, BAUD, CNTL, writes, rxFifo, txAvail,
                        delivered, clock, timeout, returned>>]_vars

C13_Witness == Returned("write") /\ arg = <<10, 97>> /\ sent = <<10, 97>>
               /\ ret = <<"OkLen", 2>>


\* A value that reports a failure.
Failure(v) == v[1] \in {"Err", "TimedOut"}

\* C14: a failure is returned only by wait_for_byte and by the buffered read
\* that forwards it, only with a timeout T configured, only from a clock read
\* whose value is strictly greater than start + T*1000, and only when the
\* poll before that clock read found the data-ready bit clear.
C14_OnlyTimeout ==
    /\ [](Failure(ret) =>
            /\ op \in {"wait_for_byte", "read"}
            /\ ret[1] = "TimedOut" => op = "read"
            /\ timeout # <<>>
            /\ access[1] = "CLOCK"
            /\ access[2] > start + timeout[1] * 1000)
    /\ [][ret'[1] = "Err" /\ ret[1] # "Err" =>
            /\ pc = "wfb_time"
            /\ access[1] = "LSR" /\ ~BitSet(access[2], 1)
            /\ access' = <<"CLOCK", clock>>]_vars
    /\ [][ret'[1] = "TimedOut" /\ ret[1] # "TimedOut" =>
            pc = "read_match" /\ ret = <<"Err", 0>>]_vars

C14_Witness == Returned("read") /\ ret = <<"TimedOut", 0>> /\ timeout = <<1>>
               /\ start = 0 /\ access = <<"CLOCK", 1001>>


\* C15: with the timeout set to 0 a wait_for_byte whose first poll finds no
\* byte returns the timeout failure in that first iteration: it never polls a
\* second time, whatever the clock reads.
C15_Original ==
    (op = "wait_for_byte" /\ timeout = <<0>>) =>
        /\ pc = "wfb_poll" => polls = 0
        /\ Returned("wait_for_byte") /\ ret = <<"Err", 0>> => polls = 1


\* wait_for_byte is in its loop and the clock is past its deadline.
Late == InWait /\ timeout # <<>> /\ clock > start + timeout[1] * 1000

\* C16: once the clock is past start + T*1000 the call stays past it, its next
\* poll either returns Ok (a byte is there) or leads to the clock read, and
\* its next clock read returns the timeout failure: at most one more poll and
\* one more clock read.
C16_OnePollPastDeadline ==
    /\ [][Late /\ InWait' => Late']_vars
    /\ [][Late /\ pc = "wfb_poll" /\ pc' # pc =>
            IF rxFifo # <<>> THEN pc' = cont /\ ret' = <<"Ok", 0>>
                             ELSE pc' = "wfb_time"]_vars
    /\ [][Late /\ pc = "wfb_time" /\ pc' # pc =>
            pc' = cont /\ ret' = <<"Err", 0>>]_vars

C16_Witness == Returned("wait_for_byte") /\ ret = <<"Ok", 0>> /\ timeout = <<0>>
               /\ ~readyInTime /\ polls = 2 /\ clock > start


\* C17: a buffered read into a buffer of capacity >= 1 that does not time out
\* returns a count >= 1 (the hardware takes a byte out of the receive FIFO
\* only on an IO read).
C17_AtLeastOne ==
    (Returned("read") /\ ret[1] = "OkLen" /\ Len(buf) >= 1) =>
        /\ ret[2] >= 1
        /\ buf[1] \in RxBytes

C17_Witness == Returned("read") /\ Len(buf) = 1 /\ ret = <<"OkLen", 1>>
               /\ rxFifo # <<>>


\* C18: the timeout is unset until and when new() returns; it changes only in
\* a set_read_timeout step, which can make it any m whatever it was before
\* and always leaves it set; so it never returns to unset.
C18_TimeoutConfig ==
    /\ [](~Initialized \/ Returned("new") => timeout = <<>>)
    /\ [](pc = "idle" =>
            \A m \in 0..MaxTimeoutMs : ENABLED (set_read_timeout /\ timeout' = <<m>>))
    /\ [][set_read_timeout => Len(timeout') = 1 /\ timeout'[1] \in 0..MaxTimeoutMs]_vars
    /\ [][timeout' # timeout =>
            /\ pc = "idle" /\ pc' = "idle"
            /\ op' = "set_read_timeout" /\ last' = "set_read_timeout"
            /\ timeout' # <<>>]_vars

C18_Witness == Returned("set_read_timeout") /\ timeout = <<1>> /\ clock > 0
               /\ returned # <<>>


\* C19: the bytes handed to callers, in the order handed, followed by the
\* bytes still in the receive FIFO, are exactly the bytes the hardware made
\* available: nothing is lost, duplicated or reordered, whatever operations
\* ran; a read_byte returns the byte it has just appended to that sequence.
C19_InOrderNoLoss ==
    /\ delivered = returned \o rxFifo
    /\ IsPrefix(returned, delivered)
    /\ Returned("read_byte") =>
          returned # <<>> /\ ret = <<"u8", returned[Len(returned)]>>

C19_Witness == Returned("read_byte") /\ returned = <<97, 98>> /\ delivered = <<97, 98>>
               /\ timeout # <<>>


\* C20: once new() has returned, LCR, BAUD and CNTL keep 0b11, 270 and 0b11,
\* no step changes a pin function, AUX_ENABLES or a configuration register,
\* and the driver's accesses are reads of LSR, IO and the clock and writes of
\* IO only.
C20_ConfigFrozen ==
    /\ [](Initialized =>
            /\ LCR = 3 /\ BAUD = 270 /\ CNTL = 3
            /\ BitSet(AUX_ENABLES, 1)
            /\ Len(writes) = 6
            /\ access[1] \in {"none", "LSR", "IO_W", "IO_R", "CLOCK"})
    /\ [][Initialized =>
            UNCHANGED <<pins, AUX_ENABLES, LCR, BAUD, CNTL, writes>>]_vars

C20_Witness == Returned("write_str") /\ sent = <<13, 10>> /\ LCR = 3 /\ BAUD = 270
               /\ CNTL = 3 /\ AUX_ENABLES = 3 /\ timeout = <<0>> /\ returned # <<>>

====
